---- MODULE Spec2Model ----
(***************************************************************************)
(* StripeHelper (rri-stripe-np): isUSBankTransfer, isPiUsBankTransfer and  *)
(* getCustomersByEmail over an injected Stripe client.  Every await of the *)
(* source is a suspension point: the code between two awaits is one        *)
(* action, and invocations interleave at the awaits.                       *)
(***************************************************************************)
EXTENDS Integers, Sequences, FiniteSets, TLC

VARIABLES debug, stripe, inv

vars == <<debug, stripe, inv>>

----------------------------------------------------------------------------
(* Bounds *)

\* longest embedded charge list (pi.charges.data) the client returns
MaxCharges == 2
\* number of invocations in flight on one StripeHelper instance
NumConcurrent == 2
\* longest customer list a search returns
MaxCustomers == 2

----------------------------------------------------------------------------
(* Values.  Identifiers are strings whose prefix the code inspects, so     *)
(* they are sequences of characters; Undefined is the JavaScript undefined.*)

Undefined == <<"undefined">>
EmptyStr == << >>

pi_1 == <<"p", "i", "_", "1">>
pi_2 == <<"p", "i", "_", "2">>
py_1 == <<"p", "y", "_", "1">>
ch_1 == <<"c", "h", "_", "1">>
ch_2 == <<"c", "h", "_", "2">>
PI_1 == <<"P", "I", "_", "1">>
bare_pi == <<"p", "i">>

PiPrefix == <<"p", "i", "_">>
PyPrefix == <<"p", "y", "_">>

\* String.prototype.startsWith
StartsWith(s, p) == Len(s) >= Len(p) /\ SubSeq(s, 1, Len(p)) = p

\* JavaScript truthiness of an optional string
Truthy(s) == s # Undefined /\ s # EmptyStr

US_BANK_ACCOUNT == "us_bank_account"

\* identifiers a caller passes to isUSBankTransfer
ChargeIdInputs == {pi_1, pi_2, py_1, ch_1, PI_1, bare_pi, EmptyStr}

\* payment_method_details.type values, with a case variant of the literal
Types == {US_BANK_ACCOUNT, "US_BANK_ACCOUNT", "card"}

NoDetails == [present |-> FALSE, type |-> "undefined"]
Details(t) == [present |-> TRUE, type |-> t]
PaymentMethodDetails == {NoDetails} \cup {Details(t) : t \in Types}

\* type Charge, as embedded in pi.charges.data
EmbeddedChargeIds == {ch_1, ch_2}
Charge == [id : EmbeddedChargeIds, payment_method_details : PaymentMethodDetails]

\* charge lists of distinct ids, up to MaxCharges entries
RECURSIVE ChargeLists(_)
ChargeLists(n) ==
    IF n = 0 THEN {<< >>}
    ELSE LET shorter == ChargeLists(n - 1)
         IN  shorter \cup
             {Append(l, c) : <<l, c>> \in
                 {<<l, c>> \in shorter \X Charge :
                     /\ Len(l) = n - 1
                     /\ \A k \in 1..Len(l) : l[k].id # c.id}}

NoCharges == [present |-> FALSE, data |-> << >>]
ChargesField == {NoCharges} \cup
                {[present |-> TRUE, data |-> l] : l \in ChargeLists(MaxCharges)}

\* type PaymentIntent
PaymentIntent(ids) ==
    [id : ids, charges : ChargesField, latest_charge : {Undefined, ch_1, ch_2}]

\* the record charges.retrieve resolves to; the code reads payment_intent
\* (lookup of the input id) and payment_method_details (fallback fetch)
ChargeRecord ==
    [payment_intent : {Undefined, pi_1, pi_2},
     payment_method_details : PaymentMethodDetails]

----------------------------------------------------------------------------
(* The Stripe client.  A call resolves to a record, resolves to null (a    *)
(* malformed response), or rejects; JavaScript lets a promise reject with  *)
(* any value, an Error object or a nullish one.                            *)

Statuses == {"record", "null", "throwError", "throwNullish"}

NoBody == [none |-> TRUE]
Failures == {[status |-> s, body |-> NoBody] : s \in Statuses \ {"record"}}
Records(bodies) == {[status |-> "record", body |-> b] : b \in bodies}

Throws(r) == r.status \in {"throwError", "throwNullish"}

\* type Customer, and the data list of a search result
Customer(k) == [id |-> k]
CustomerLists == {[k \in 1..n |-> Customer(k)] : n \in 0..MaxCustomers}
SearchResult == [data : CustomerLists]

\* every way a call on the handle (typed any) can settle
FullClient ==
    [charges        |-> Failures \cup Records(ChargeRecord),
     paymentIntents |-> Failures \cup Records(PaymentIntent({pi_1})),
     customers      |-> Failures \cup Records(SearchResult)]

\* a client with a few canned responses, used where invocations interleave
StubClient ==
    [charges        |->
        {[status |-> "throwError", body |-> NoBody]} \cup
        Records({[payment_intent |-> pi_1, payment_method_details |-> Details(US_BANK_ACCOUNT)],
                 [payment_intent |-> pi_2, payment_method_details |-> Details("card")],
                 [payment_intent |-> Undefined, payment_method_details |-> NoDetails]}),
     paymentIntents |->
        {[status |-> "throwNullish", body |-> NoBody]} \cup
        Records({[id |-> pi_1, charges |-> NoCharges, latest_charge |-> ch_1],
                 [id |-> pi_1, latest_charge |-> ch_2, charges |->
                    [present |-> TRUE,
                     data |-> <<[id |-> ch_2, payment_method_details |-> Details(US_BANK_ACCOUNT)]>>]],
                 [id |-> pi_1, latest_charge |-> Undefined, charges |->
                    [present |-> TRUE, data |-> << >>]]}),
     customers      |->
        {[status |-> "throwError", body |-> NoBody]} \cup
        Records({[data |-> << >>], [data |-> <<Customer(1)>>]})]

\* what this.stripe can answer: stripe names the client the handle is bound to
Client == IF stripe = "real" THEN FullClient ELSE StubClient

\* a network call as issued: which client method, with which argument
Call(api, arg) == [api |-> api, arg |-> arg]

----------------------------------------------------------------------------
(* Invocations *)

Emails == {<<"a", "@", "b">>, EmptyStr}

\* records a caller of isPiUsBankTransfer holds: ones the client produced,
\* under any id
PiInputIds == {pi_1, py_1, bare_pi, EmptyStr, Undefined}
PiInputs ==
    {[r.body EXCEPT !.id = x] :
        <<r, x>> \in {q \in Client.paymentIntents : q.status = "record"} \X PiInputIds}

Bool(b) == [type |-> "boolean", bool |-> b, data |-> << >>]
Array(l) == [type |-> "array", bool |-> FALSE, data |-> l]
UndefinedValue == [type |-> "undefined", bool |-> FALSE, data |-> << >>]

Pending == [kind |-> "pending", value |-> UndefinedValue]
Returned(v) == [kind |-> "returned", value |-> v]
\* the promise rejects: an error reaches the caller
Rejected == [kind |-> "rejected", value |-> UndefinedValue]

NoPi == [id |-> Undefined, charges |-> NoCharges, latest_charge |-> Undefined]

Idle ==
    [pc        |-> "idle",
     op        |-> "none",
     chargeId  |-> Undefined,
     paymentIntent |-> NoPi,
     email     |-> Undefined,
     derivedPi |-> Undefined,
     pi        |-> NoPi,
     outcome   |-> Pending,
     calls     |-> << >>,
     resps     |-> << >>,
     inFlight  |-> 0]

\* the call is issued and the invocation suspends on its promise
Issue(s, api, arg, at) ==
    [s EXCEPT !.pc = at,
              !.calls = Append(@, Call(api, arg)),
              !.inFlight = @ + 1]

\* the awaited promise settles with r and the invocation resumes
Receive(s, r) ==
    [s EXCEPT !.resps = Append(@, r), !.inFlight = @ - 1]

\* the invocation completes with outcome out
Done(s, out) == [s EXCEPT !.pc = "done", !.outcome = out]

\* the value caught after the awaited call settled with r: what the client
\* rejected with, or the TypeError of reading a property of null
Caught(r) == IF r.status = "throwNullish" THEN "nullish" ELSE "Error"

\* mutant of CatchClassifier: the catch block rethrows
CatchClassifierRethrow(err) == Rejected

\* catch block of isUSBankTransfer: with debug on it reads err.message,
\* which throws out of the catch block when err is null or undefined
CatchClassifier(err) ==
    IF debug /\ err = "nullish" THEN Rejected ELSE Returned(Bool(FALSE))

\* mutant of CatchSearch: a failed search is reported as an empty list
CatchSearchEmptyList(err) == Returned(Array(<< >>))

\* catch block of getCustomersByEmail: logs err itself, returns undefined
CatchSearch(err) == Returned(UndefinedValue)

\* Array.prototype.find(c => c.id === target): index of the first match, 0 if none
Find(data, target) ==
    LET hits == {k \in 1..Len(data) : data[k].id = target}
    IN  IF hits = {} THEN 0 ELSE CHOOSE k \in hits : \A h \in hits : k <= h

\* mutant of Classify: the type is compared ignoring case
ClassifyIgnoreCase(details) ==
    details.present /\ details.type \in {"us_bank_account", "US_BANK_ACCOUNT"}

\* !charge.payment_method_details -> false, else type === "us_bank_account"
Classify(details) == details.present /\ details.type = US_BANK_ACCOUNT

\* `email:"${email}"`
Query(email) == <<"e", "m", "a", "i", "l", ":", "\"">> \o email \o <<"\"">>

----------------------------------------------------------------------------
(* isUSBankTransfer *)

\* mutant of AfterDerive: an underived id is itself tried as a payment intent
AfterDeriveUseChargeId(s) ==
    Issue(s, "paymentIntents.retrieve",
          IF Truthy(s.derivedPi) THEN s.derivedPi ELSE s.chargeId, "awaitPi")

\* if (!derivedPi) return false; else await paymentIntents.retrieve(derivedPi)
AfterDerive(s) ==
    IF ~Truthy(s.derivedPi)
    THEN Done(s, Returned(Bool(FALSE)))
    ELSE Issue(s, "paymentIntents.retrieve", s.derivedPi, "awaitPi")

\* mutant of Enter: the charge lookup is not guarded by the "py_" prefix
EnterLookupFirst(s, chargeId) ==
    Issue([s EXCEPT !.op = "isUSBankTransfer",
                    !.chargeId = chargeId,
                    !.derivedPi = IF StartsWith(chargeId, PiPrefix)
                                  THEN chargeId ELSE Undefined],
          "charges.retrieve", chargeId, "awaitCharge")

\* entry, up to the first await
Enter(s, chargeId) ==
    LET s1 == [s EXCEPT !.op = "isUSBankTransfer",
                        !.chargeId = chargeId,
                        !.derivedPi = IF StartsWith(chargeId, PiPrefix)
                                      THEN chargeId ELSE Undefined]
    IN  IF StartsWith(chargeId, PyPrefix)
        THEN Issue(s1, "charges.retrieve", chargeId, "awaitCharge")
        ELSE AfterDerive(s1)

\* mutant of AfterCharge: the derived id is memoized on the instance per
\* charge id, so an invocation takes the id another invocation derived
AfterChargeMemo(s, r) ==
    LET s1 == Receive(s, r)
        memo == {inv[j].derivedPi : j \in
                    {j \in DOMAIN inv : /\ inv[j].chargeId = s.chargeId
                                        /\ Truthy(inv[j].derivedPi)}}
    IN  IF r.status # "record"
        THEN Done(s1, CatchClassifier(Caught(r)))
        ELSE AfterDerive([s1 EXCEPT !.derivedPi =
                            IF memo # {} THEN CHOOSE d \in memo : TRUE
                            ELSE IF Truthy(r.body.payment_intent)
                            THEN r.body.payment_intent ELSE @])

\* resumption after charges.retrieve(chargeId)
AfterCharge(s, r) ==
    LET s1 == Receive(s, r)
    IN  IF r.status # "record"
        THEN Done(s1, CatchClassifier(Caught(r)))
        ELSE AfterDerive([s1 EXCEPT !.derivedPi =
                            IF Truthy(r.body.payment_intent)
                            THEN r.body.payment_intent ELSE @])

\* mutant of NeedsFallback: the latest charge is always fetched again
NeedsFallbackAlways(p) == TRUE

\* the fallback fetch is needed: no embedded charge has the id latest_charge
NeedsFallback(p) ==
    ~p.charges.present \/ Find(p.charges.data, p.latest_charge) = 0

\* resumption after paymentIntents.retrieve(derivedPi)
AfterPi(s, r) ==
    LET s1 == Receive(s, r)
        p  == r.body
    IN  IF r.status # "record"
        THEN Done(s1, CatchClassifier(Caught(r)))
        ELSE IF ~p.charges.present /\ ~Truthy(p.latest_charge)
        THEN Done([s1 EXCEPT !.pi = p], Returned(Bool(FALSE)))
        ELSE IF NeedsFallback(p)
        THEN Issue([s1 EXCEPT !.pi = p], "charges.retrieve", p.latest_charge,
                   "awaitFallback")
        ELSE Done([s1 EXCEPT !.pi = p],
                  Returned(Bool(Classify(
                      p.charges.data[Find(p.charges.data, p.latest_charge)]
                          .payment_method_details))))

\* mutant of AfterFallback: a failed fallback fetch is retried
AfterFallbackRetry(s, r) ==
    LET s1 == Receive(s, r)
    IN  IF Throws(r)
        THEN Issue(s1, "charges.retrieve", s.pi.latest_charge, "awaitFallback")
        ELSE IF r.status = "null"
        THEN Done(s1, Returned(Bool(FALSE)))
        ELSE Done(s1, Returned(Bool(Classify(r.body.payment_method_details))))

\* resumption after the fallback charges.retrieve(pi.latest_charge)
AfterFallback(s, r) ==
    LET s1 == Receive(s, r)
    IN  IF Throws(r)
        THEN Done(s1, CatchClassifier(Caught(r)))
        ELSE IF r.status = "null"
        THEN Done(s1, Returned(Bool(FALSE)))
        ELSE Done(s1, Returned(Bool(Classify(r.body.payment_method_details))))

isUSBankTransfer(i) ==
    /\ inv[i].pc = "idle"
    /\ \E chargeId \in ChargeIdInputs :
          inv' = [inv EXCEPT ![i] = Enter(inv[i], chargeId)]
    /\ UNCHANGED <<debug, stripe>>

ChargeReturns(i) ==
    /\ inv[i].pc = "awaitCharge"
    /\ \E r \in Client.charges :
          inv' = [inv EXCEPT ![i] = AfterCharge(inv[i], r)]
    /\ UNCHANGED <<debug, stripe>>

PaymentIntentReturns(i) ==
    /\ inv[i].pc = "awaitPi"
    /\ \E r \in Client.paymentIntents :
          inv' = [inv EXCEPT ![i] = AfterPi(inv[i], r)]
    /\ UNCHANGED <<debug, stripe>>

FallbackReturns(i) ==
    /\ inv[i].pc = "awaitFallback"
    /\ \E r \in Client.charges :
          inv' = [inv EXCEPT ![i] = AfterFallback(inv[i], r)]
    /\ UNCHANGED <<debug, stripe>>

----------------------------------------------------------------------------
(* isPiUsBankTransfer: no await, the whole body is one step *)

\* mutant of PiResult: the "pi_" prefix of the record's id is not checked
PiResultNoPrefixCheck(paymentIntent) ==
    IF ~paymentIntent.charges.present
    THEN FALSE
    ELSE LET k == Find(paymentIntent.charges.data, paymentIntent.latest_charge)
         IN  IF k = 0 THEN FALSE
             ELSE Classify(paymentIntent.charges.data[k].payment_method_details)

PiResult(paymentIntent) ==
    IF ~Truthy(paymentIntent.id) \/ ~StartsWith(paymentIntent.id, PiPrefix)
    THEN FALSE
    ELSE IF ~paymentIntent.charges.present
    THEN FALSE
    ELSE LET k == Find(paymentIntent.charges.data, paymentIntent.latest_charge)
         IN  IF k = 0 THEN FALSE
             ELSE Classify(paymentIntent.charges.data[k].payment_method_details)

isPiUsBankTransfer(i) ==
    /\ inv[i].pc = "idle"
    /\ \E paymentIntent \in PiInputs :
          inv' = [inv EXCEPT ![i] =
                    Done([@ EXCEPT !.op = "isPiUsBankTransfer",
                                   !.paymentIntent = paymentIntent],
                         Returned(Bool(PiResult(paymentIntent))))]
    /\ UNCHANGED <<debug, stripe>>

----------------------------------------------------------------------------
(* getCustomersByEmail *)

AfterSearch(s, r) ==
    LET s1 == Receive(s, r)
    IN  IF r.status # "record"
        THEN Done(s1, CatchSearch(Caught(r)))
        ELSE Done(s1, Returned(Array(r.body.data)))

getCustomersByEmail(i) ==
    /\ inv[i].pc = "idle"
    /\ \E email \in Emails :
          inv' = [inv EXCEPT ![i] =
                    Issue([@ EXCEPT !.op = "getCustomersByEmail", !.email = email],
                          "customers.search", Query(email), "awaitSearch")]
    /\ UNCHANGED <<debug, stripe>>

SearchReturns(i) ==
    /\ inv[i].pc = "awaitSearch"
    /\ \E r \in Client.customers :
          inv' = [inv EXCEPT ![i] = AfterSearch(inv[i], r)]
    /\ UNCHANGED <<debug, stripe>>

----------------------------------------------------------------------------
(* Specifications *)

\* one invocation against the real client
Init ==
    /\ debug \in BOOLEAN
    /\ stripe = "real"
    /\ inv = [i \in 1..1 |-> Idle]

\* NumConcurrent invocations interleaving against the canned client
InitConcurrent ==
    /\ debug \in BOOLEAN
    /\ stripe = "stub"
    /\ inv = [i \in 1..NumConcurrent |-> Idle]

Next ==
    \E i \in DOMAIN inv :
        \/ isUSBankTransfer(i)
        \/ ChargeReturns(i)
        \/ PaymentIntentReturns(i)
        \/ FallbackReturns(i)
        \/ isPiUsBankTransfer(i)
        \/ getCustomersByEmail(i)
        \/ SearchReturns(i)

Spec == Init /\ [][Next]_vars

SpecConcurrent == InitConcurrent /\ [][Next]_vars

----------------------------------------------------------------------------
(* Vocabulary of the properties, stated over what a caller and the client  *)
(* observe: the input, the calls issued, the responses, the outcome.       *)

HasPrefix(id, a, b, c) == Len(id) >= 3 /\ id[1] = a /\ id[2] = b /\ id[3] = c
IsPiId(id) == HasPrefix(id, "p", "i", "_")
IsPyId(id) == HasPrefix(id, "p", "y", "_")
Present(id) == id # <<"undefined">> /\ id # << >>
IsBank(details) == details.present /\ details.type = "us_bank_account"

Finished(i) == inv[i].pc = "done"
Classifier(i) == inv[i].op = "isUSBankTransfer"
ReturnedFalse(i) ==
    inv[i].outcome.kind = "returned" /\ inv[i].outcome.value.type = "boolean"
        /\ inv[i].outcome.value.bool = FALSE
ReturnedTrue(i) ==
    inv[i].outcome.kind = "returned" /\ inv[i].outcome.value.type = "boolean"
        /\ inv[i].outcome.value.bool = TRUE

\* a payment-intent id is derived from the input id
Derived(s) ==
    \/ IsPiId(s.chargeId)
    \/ /\ IsPyId(s.chargeId)
       /\ Len(s.resps) >= 1
       /\ s.resps[1].status = "record"
       /\ Present(s.resps[1].body.payment_intent)

\* position of the payment-intent fetch among the calls of an invocation
PiIndex(s) == IF IsPiId(s.chargeId) THEN 1 ELSE 2

\* the payment-intent record was fetched
PiFetched(s) ==
    /\ Derived(s)
    /\ Len(s.resps) >= PiIndex(s)
    /\ s.resps[PiIndex(s)].status = "record"

\* payment_method_details of the embedded charges whose id equals latest_charge
EmbeddedDetails(p) ==
    IF p.charges.present
    THEN {p.charges.data[n].payment_method_details :
            n \in {m \in 1..Len(p.charges.data) : p.charges.data[m].id = p.latest_charge}}
    ELSE {}

\* payment_method_details of the charge selected for the payment intent:
\* the embedded charge, otherwise the record the fallback fetch returned
SelectedDetails(s) ==
    IF ~PiFetched(s) THEN {}
    ELSE LET k == PiIndex(s)
             p == s.resps[k].body
         IN  IF EmbeddedDetails(p) # {} THEN EmbeddedDetails(p)
             ELSE IF Len(s.resps) > k /\ s.resps[k + 1].status = "record"
             THEN {s.resps[k + 1].body.payment_method_details}
             ELSE {}

----------------------------------------------------------------------------
\* C1: isUSBankTransfer never surfaces an error: whatever the debug setting,
\* when a network call of it (charge lookup, payment-intent fetch, fallback
\* fetch) fails with an Error, or resolves to null so that reading the
\* response throws, the invocation completes by returning false.
C1_ErrorsYieldFalse ==
    \A i \in DOMAIN inv :
        (/\ Finished(i) /\ Classifier(i)
         /\ Len(inv[i].resps) >= 1
         /\ inv[i].resps[Len(inv[i].resps)].status \in {"throwError", "null"})
        => ReturnedFalse(i)

C1_Witness ==
    \E i \in DOMAIN inv :
        /\ debug
        /\ Finished(i) /\ Classifier(i)
        /\ Len(inv[i].resps) = 3
        /\ inv[i].resps[3].status = "throwError"
        /\ ReturnedFalse(i)

\* C2: when no network call fails, isUSBankTransfer returns true iff a
\* payment-intent id is derived and the charge selected for the payment
\* intent has payment_method_details of type exactly "us_bank_account".
C2_TrueIffBankAccount ==
    \A i \in DOMAIN inv :
        (/\ Finished(i) /\ Classifier(i)
         /\ \A k \in 1..Len(inv[i].resps) :
               inv[i].resps[k].status \notin {"throwError", "throwNullish"})
        => IF \E d \in SelectedDetails(inv[i]) : IsBank(d)
           THEN ReturnedTrue(i) ELSE ReturnedFalse(i)

C2_Witness ==
    \E i \in DOMAIN inv :
        /\ Finished(i) /\ Classifier(i)
        /\ IsPyId(inv[i].chargeId)
        /\ Len(inv[i].resps) = 3
        /\ inv[i].resps[3].status = "record"
        /\ EmbeddedDetails(inv[i].resps[2].body) = {}
        /\ ReturnedTrue(i)

\* C3 as stated: every invocation issues at most two network calls, one at
\* a time.
C3_AtMostTwoCalls ==
    \A i \in DOMAIN inv :
        /\ Len(inv[i].calls) <= 2
        /\ Len(inv[i].calls) - Len(inv[i].resps) \in {0, 1}

\* C3 amended: every invocation issues at most three network calls
\* (isUSBankTransfer: charge lookup, payment-intent fetch, fallback fetch;
\* isPiUsBankTransfer none; getCustomersByEmail one), and a call is issued
\* only after every earlier call of the invocation has returned.
C3_AtMostThreeCalls ==
    \A i \in DOMAIN inv :
        /\ Len(inv[i].calls) <= 3
        /\ inv[i].op = "isPiUsBankTransfer" => Len(inv[i].calls) = 0
        /\ inv[i].op = "getCustomersByEmail" => Len(inv[i].calls) = 1
        /\ Len(inv[i].calls) - Len(inv[i].resps) \in {0, 1}
        /\ Finished(i) => Len(inv[i].calls) = Len(inv[i].resps)

C3_Witness ==
    \E i \in DOMAIN inv :
        /\ Finished(i) /\ Classifier(i)
        /\ Len(inv[i].calls) = 3
        /\ Len(inv[i].resps) = 3

\* C4: once the payment-intent record is fetched and carries a latest_charge
\* id: no fallback fetch when an embedded charge has that id, otherwise
\* exactly one fallback fetch, of the latest_charge id.
C4_FallbackOnlyWhenNotEmbedded ==
    \A i \in DOMAIN inv :
        (/\ Classifier(i) /\ PiFetched(inv[i])
         /\ Present(inv[i].resps[PiIndex(inv[i])].body.latest_charge))
        => LET k == PiIndex(inv[i])
               p == inv[i].resps[k].body
           IN  IF EmbeddedDetails(p) # {}
               THEN Len(inv[i].calls) = k
               ELSE /\ Len(inv[i].calls) = k + 1
                    /\ inv[i].calls[k + 1].api = "charges.retrieve"
                    /\ inv[i].calls[k + 1].arg = p.latest_charge

C4_Witness ==
    \E i \in DOMAIN inv :
        /\ Finished(i) /\ Classifier(i) /\ PiFetched(inv[i])
        /\ LET p == inv[i].resps[PiIndex(inv[i])].body
           IN  /\ Present(p.latest_charge)
               /\ p.charges.present /\ Len(p.charges.data) = 1
               /\ EmbeddedDetails(p) = {}
        /\ Len(inv[i].calls) = PiIndex(inv[i]) + 1

C6_UnderivedYieldsFalse ==
    \A i \in DOMAIN inv :
        (/\ Finished(i) /\ Classifier(i) /\ ~Derived(inv[i])
         /\ IsPyId(inv[i].chargeId) => inv[i].resps[1].status = "record")
        => /\ ReturnedFalse(i)
           /\ \A k \in 1..Len(inv[i].calls) :
                 inv[i].calls[k].api # "paymentIntents.retrieve"
           /\ Len(inv[i].calls) = IF IsPyId(inv[i].chargeId) THEN 1 ELSE 0

C6_Witness ==
    \E i \in DOMAIN inv :
        /\ Finished(i) /\ Classifier(i) /\ ~Derived(inv[i])
        /\ IsPyId(inv[i].chargeId)
        /\ inv[i].resps[1].status = "record"
        /\ Len(inv[i].calls) = 1

\* C7: isPiUsBankTransfer issues no network call and returns true iff the
\* record's id starts with "pi_", it has an embedded charge list, and the
\* entry of that list whose id equals latest_charge has
\* payment_method_details of type exactly "us_bank_account".
C7_PiVariantIsPure ==
    \A i \in DOMAIN inv :
        (Finished(i) /\ inv[i].op = "isPiUsBankTransfer")
        => /\ inv[i].calls = << >>
           /\ IF /\ IsPiId(inv[i].paymentIntent.id)
                 /\ \E d \in EmbeddedDetails(inv[i].paymentIntent) : IsBank(d)
              THEN ReturnedTrue(i) ELSE ReturnedFalse(i)

C7_Witness ==
    \E i \in DOMAIN inv :
        /\ Finished(i) /\ inv[i].op = "isPiUsBankTransfer"
        /\ Len(inv[i].paymentIntent.charges.data) = 2
        /\ ReturnedTrue(i)

\* C8: getCustomersByEmail issues exactly one customer-search call; when it
\* throws the operation returns undefined and raises nothing; when it
\* succeeds the operation returns the result's data list unchanged, an
\* array (possibly empty) and so distinct from undefined.
C8_SearchOutcome ==
    \A i \in DOMAIN inv :
        inv[i].op = "getCustomersByEmail" =>
            /\ Len(inv[i].calls) = 1
            /\ inv[i].calls[1].api = "customers.search"
            /\ Finished(i) =>
                  /\ inv[i].outcome.kind = "returned"
                  /\ inv[i].resps[1].status \in {"throwError", "throwNullish"} =>
                        inv[i].outcome.value.type = "undefined"
                  /\ inv[i].resps[1].status = "record" =>
                        /\ inv[i].outcome.value.type = "array"
                        /\ inv[i].outcome.value.data = inv[i].resps[1].body.data

C8_Witness ==
    \E i \in DOMAIN inv :
        /\ Finished(i) /\ inv[i].op = "getCustomersByEmail"
        /\ inv[i].resps[1].status = "record"
        /\ inv[i].resps[1].body.data = << >>
        /\ inv[i].outcome.value.type = "array"

\* the outcome and the calls of an invocation that runs on its own, start to
\* end, on the input of s and the responses s received
AloneRun(s) ==
    LET Val(t, b) == [type |-> t, bool |-> b, data |-> << >>]
        Ret(b) == [kind |-> "returned", value |-> Val("boolean", b)]
        Catch(r) == IF debug /\ r.status = "throwNullish"
                    THEN [kind |-> "rejected", value |-> Val("undefined", FALSE)]
                    ELSE Ret(FALSE)
        Run(o, c) == [outcome |-> o, calls |-> c]
        id == s.chargeId
        rs == s.resps
        pre == IF IsPyId(id) THEN <<[api |-> "charges.retrieve", arg |-> id]>> ELSE << >>
        n == Len(pre)
        FromPi(d) ==
            LET calls2 == Append(pre, [api |-> "paymentIntents.retrieve", arg |-> d])
                r == rs[n + 1]
            IN  IF r.status # "record" THEN Run(Catch(r), calls2)
                ELSE IF ~r.body.charges.present /\ ~Present(r.body.latest_charge)
                THEN Run(Ret(FALSE), calls2)
                ELSE IF EmbeddedDetails(r.body) # {}
                THEN Run(Ret(\E e \in EmbeddedDetails(r.body) : IsBank(e)), calls2)
                ELSE LET calls3 == Append(calls2, [api |-> "charges.retrieve",
                                                   arg |-> r.body.latest_charge])
                         f == rs[n + 2]
                     IN  IF f.status \in {"throwError", "throwNullish"}
                         THEN Run(Catch(f), calls3)
                         ELSE IF f.status = "null" THEN Run(Ret(FALSE), calls3)
                         ELSE Run(Ret(IsBank(f.body.payment_method_details)), calls3)
    IN  IF IsPyId(id)
        THEN IF rs[1].status # "record" THEN Run(Catch(rs[1]), pre)
             ELSE IF Present(rs[1].body.payment_intent)
             THEN FromPi(rs[1].body.payment_intent)
             ELSE Run(Ret(FALSE), pre)
        ELSE IF IsPiId(id) THEN FromPi(id)
        ELSE Run(Ret(FALSE), << >>)

IndependentOfOthers ==
    \A i \in DOMAIN inv :
        (Finished(i) /\ Classifier(i))
        => AloneRun(inv[i]) = [outcome |-> inv[i].outcome, calls |-> inv[i].calls]

\* C9: concurrent invocations of the classifier are independent: under every
\* interleaving each invocation's outcome and calls are those of the same
\* invocation run alone on the same responses; a step of one invocation
\* changes no other invocation, and the client handle and the debug flag
\* never change after construction.
C9_Independent ==
    /\ []IndependentOfOthers
    /\ [][/\ debug' = debug
          /\ stripe' = stripe
          /\ \E i \in DOMAIN inv : \A j \in DOMAIN inv \ {i} : inv'[j] = inv[j]]_vars

C9_Witness ==
    /\ Cardinality(DOMAIN inv) >= 2
    /\ Finished(1) /\ Classifier(1) /\ Len(inv[1].calls) = 3
    /\ Classifier(2) /\ inv[2].pc = "awaitPi"
    /\ inv[2].chargeId = inv[1].chargeId
    /\ inv[2].derivedPi # inv[1].derivedPi

\* C10 as stated: every charge fetch isUSBankTransfer issues is given a
\* defined, non-empty identifier.
C10_ChargeFetchHasId ==
    \A i \in DOMAIN inv :
        Classifier(i) =>
            \A k \in 1..Len(inv[i].calls) :
                inv[i].calls[k].api = "charges.retrieve" => Present(inv[i].calls[k].arg)

====
